---------------------------- MODULE Spec2Model ----------------------------
(***************************************************************************)
(* Model of the TelegramParser component (frontend) of tg_parse: the       *)
(* handleSubmit handler and the retrying member-enumeration driver         *)
(* fetchAllMembers / attemptFetch.  Every await of the source is a point   *)
(* where the handler yields; the code between two awaits is one action.    *)
(* The server (parse-group, group-members) is the environment: each        *)
(* response is drawn from a small set of inputs.                           *)
(***************************************************************************)
EXTENDS Integers, Sequences, FiniteSets, TLC

(***************************************************************************)
(* Bounds of the model                                                     *)
(***************************************************************************)
\* handleSubmit invocations that may be alive at the same time
NJobs == 2
\* submissions of the form in one behaviour
MaxSubmits == 2
\* pages the server serves with has_more = true in one attempt, plus one
MaxPages == 3
\* the history counters stop counting here (above every value the code reaches)
HistCap == 30

Jobs == 1..NJobs

(***************************************************************************)
(* Program constants                                                       *)
(***************************************************************************)
maxRetries == 3
batchSize == 50

(***************************************************************************)
(* Inputs: what the server may answer                                      *)
(***************************************************************************)
\* group links the operator types; the server resolves a link to its group
Groups == {"grpA", "grpB"}
NoGroup == "null"

\* total_count of the count probe; Undefined stands for a missing field
Undefined == -1
TotalCounts == {Undefined, 0, 40, 120}

\* lengths of response.data.data of a page request (limit = batchSize)
PageLens == {0, 20, 23, 50}

\* error texts of the server
EntityText == "Could not find the input entity"
EntityTextLong == "Error: Could not find the input entity for PeerChannel"
FloodText == "A wait of 30 seconds is required"
\* response.data.error of a response with success = false ("" = absent)
RejectTexts == {"", EntityText, FloodText}

\* String.prototype.includes('Could not find the input entity')
IncludesEntityNotFound(s) == s \in {EntityText, EntityTextLong}

\* a || b on strings: "" and undefined are falsy
Or(a, b) == IF a # "" THEN a ELSE b

\* the err object of a catch block
NoErr == [hasResponse |-> FALSE, dataError |-> "", hasRequest |-> FALSE,
          message |-> "", thrown |-> FALSE]
HttpErr(d) == [hasResponse |-> TRUE, dataError |-> d, hasRequest |-> TRUE,
               message |-> "Request failed with status code 500",
               thrown |-> TRUE]
NetErr == [hasResponse |-> FALSE, dataError |-> "", hasRequest |-> TRUE,
           message |-> "Network Error", thrown |-> TRUE]
SetupErr(m) == [hasResponse |-> FALSE, dataError |-> "", hasRequest |-> FALSE,
                message |-> m, thrown |-> TRUE]
\* new Error(m)
NewError(m) == SetupErr(m)

AxiosErrors == {HttpErr(""), HttpErr(EntityTextLong), NetErr}

\* the member records of one page: the server's list may change between
\* attempts, so the members served during attempt a carry the tag a
Page(a, off, len) == [i \in 1..len |-> a * 1000 + off + i]

RECURSIVE Flatten(_)
Flatten(ps) == IF ps = <<>> THEN <<>> ELSE Head(ps) \o Flatten(Tail(ps))

Lens(ps) == [i \in 1..Len(ps) |-> Len(ps[i])]

Min(a, b) == IF a < b THEN a ELSE b

\* one more event in a history counter
Count(n) == IF n < HistCap THEN n + 1 ELSE n

Str(n) == CASE n = 0 -> "0" [] n = 1 -> "1" [] n = 2 -> "2" [] n = 3 -> "3"
            [] n = 4 -> "4" [] OTHER -> "n"

(***************************************************************************)
(* State                                                                   *)
(***************************************************************************)
VARIABLES
  \* React state of TelegramParser
  loading, error, allMembers, groupInfo, loadingMembers, fetchProgress,
  \* per handleSubmit invocation: position and closure variables
  pc, groupLink, retryCount, allFetchedMembers, currentOffset, hasMore,
  totalMembers, caught, inflight, success,
  \* history of the invocation
  nAttempts, nReq, attemptPages, progressLog, resolved, lostPartial, submits,
  pageOffsets,
  \* the component is mounted; the requests counted when it was unmounted
  mounted, nReqAtUnmount,
  \* the server: members of the group, and whether it reports total_count
  memberCount, countKnown,
  \* the credential pool of the design, its clock, and the jobs of the
  \* enumeration driver of the design that use it
  pool, now, drv, outstanding,
  \* the pool operation performed last
  lastOp,
  \* React state of TokenPoolStatus, its fetchStatus calls awaiting the
  \* response, its interval timer, and what happened last
  status, statusLoading, statusError, fetching, interval, lastFetch

uiVars == <<loading, error, allMembers, groupInfo, loadingMembers,
            fetchProgress>>
jobVars == <<pc, groupLink, retryCount, allFetchedMembers, currentOffset,
             hasMore, totalMembers, caught, inflight, success>>
histVars == <<nAttempts, nReq, attemptPages, progressLog, resolved,
              lostPartial, submits>>
mountVars == <<mounted, nReqAtUnmount>>
serverVars == <<memberCount, countKnown>>
poolVars == <<pool, now, drv, outstanding>>
pollVars == <<status, statusLoading, statusError, fetching, interval,
              lastFetch>>
sideVars == <<lastOp, pollVars>>
frontVars == <<uiVars, jobVars, histVars, pageOffsets, mountVars,
               serverVars, sideVars>>
vars == <<uiVars, jobVars, histVars, pageOffsets, mountVars, serverVars,
          poolVars, sideVars>>

Null == <<>>
\* what the server answered to parse-group: outcome and raw error text
Resolution(o, t) == [outcome |-> o, text |-> t]
NoReq == [offset |-> -1, limit |-> 0]

ClientInit ==
  /\ loading = FALSE
  /\ error = Null
  /\ allMembers = <<>>
  /\ groupInfo = NoGroup
  /\ loadingMembers = FALSE
  /\ fetchProgress = 0
  /\ pc = [j \in Jobs |-> "idle"]
  /\ groupLink = [j \in Jobs |-> NoGroup]
  /\ retryCount = [j \in Jobs |-> 0]
  /\ allFetchedMembers = [j \in Jobs |-> <<>>]
  /\ currentOffset = [j \in Jobs |-> 0]
  /\ hasMore = [j \in Jobs |-> TRUE]
  /\ totalMembers = [j \in Jobs |-> 0]
  /\ caught = [j \in Jobs |-> NoErr]
  /\ inflight = [j \in Jobs |-> NoReq]
  /\ success = [j \in Jobs |-> "none"]
  /\ nAttempts = [j \in Jobs |-> 0]
  /\ nReq = [j \in Jobs |-> 0]
  /\ attemptPages = [j \in Jobs |-> <<>>]
  /\ progressLog = [j \in Jobs |-> <<>>]
  /\ resolved = [j \in Jobs |-> Resolution("pending", "")]
  /\ lostPartial = [j \in Jobs |-> FALSE]
  /\ submits = 0
  /\ pageOffsets = [j \in Jobs |-> <<>>]
  /\ mounted = TRUE
  /\ nReqAtUnmount = [j \in Jobs |-> 0]

(***************************************************************************)
(* The credential pool of the design (CredentialPool, section 4.1)         *)
(***************************************************************************)
\* configured credentials
NCreds == 2
\* jobs of the driver that share the pool
NPoolJobs == 2
\* the clock stops here
MaxTime == 2
\* failures one credential collects
MaxErrors == 2

Creds == 1..NCreds
PoolJobs == 1..NPoolJobs
NoCred == 0
NoTime == -1
\* retry_after hints of the platform; 0 stands for no hint
RetryAfters == {0, 2}
\* max_attempts of a job
max_attempts == 3
\* error_count above which release(Error) starts a cooldown
ErrorThreshold == 1

\* the default backoff, scaled by error_count
Backoff(ec) == ec

FreshCredential ==
  [status |-> "available", error_count |-> 0, cooldown_until |-> NoTime]

ExpireOneLate(c, t) ==
  IF c.status = "cooldown" /\ c.cooldown_until < t
  THEN [c EXCEPT !.status = "available", !.cooldown_until = NoTime]
  ELSE c

\* lazy cooldown expiry of one credential at time t
ExpireOne(c, t) ==
  IF c.status = "cooldown" /\ c.cooldown_until <= t
  THEN [c EXCEPT !.status = "available", !.cooldown_until = NoTime]
  ELSE c

Expire(p, t) == [c \in Creds |-> ExpireOne(p[c], t)]

AvailableOrCooling(p) == Creds

AvailableCreds(p) == {c \in Creds : p[c].status = "available"}

ReleaseCredKeepsCount(c, outcome, r, t) ==
  CASE outcome = "Success" ->
         [status |-> "available", error_count |-> c.error_count,
          cooldown_until |-> NoTime]
    [] outcome = "RateLimited" ->
         [status |-> "cooldown", error_count |-> c.error_count + 1,
          cooldown_until |->
            t + (IF r # 0 THEN r ELSE Backoff(c.error_count + 1))]
    [] OTHER ->
         IF c.error_count + 1 > ErrorThreshold
         THEN [status |-> "cooldown", error_count |-> c.error_count + 1,
               cooldown_until |-> t + Backoff(c.error_count + 1)]
         ELSE [c EXCEPT !.error_count = @ + 1]

ReleaseCredIgnoresHint(c, outcome, r, t) ==
  CASE outcome = "Success" ->
         [status |-> "available", error_count |-> 0, cooldown_until |-> NoTime]
    [] outcome = "RateLimited" ->
         [status |-> "cooldown", error_count |-> c.error_count + 1,
          cooldown_until |-> t + Backoff(c.error_count + 1)]
    [] OTHER ->
         IF c.error_count + 1 > ErrorThreshold
         THEN [status |-> "cooldown", error_count |-> c.error_count + 1,
               cooldown_until |-> t + Backoff(c.error_count + 1)]
         ELSE [c EXCEPT !.error_count = @ + 1]

\* release(credential, outcome) on one credential record at time t
ReleaseCred(c, outcome, r, t) ==
  CASE outcome = "Success" ->
         [status |-> "available", error_count |-> 0, cooldown_until |-> NoTime]
    [] outcome = "RateLimited" ->
         [status |-> "cooldown", error_count |-> c.error_count + 1,
          cooldown_until |->
            t + (IF r # 0 THEN r ELSE Backoff(c.error_count + 1))]
    [] OTHER ->
         IF c.error_count + 1 > ErrorThreshold
         THEN [status |-> "cooldown", error_count |-> c.error_count + 1,
               cooldown_until |-> t + Backoff(c.error_count + 1)]
         ELSE [c EXCEPT !.error_count = @ + 1]

\* the outcome a classified call is released with
PoolOutcome(o) ==
  CASE o = "Success" -> "Success"
    [] o = "RateLimited" -> "RateLimited"
    [] OTHER -> "Error"

IdleJob ==
  [state |-> "Init", held |-> NoCred, attempt |-> 1, asleep |-> FALSE]

PoolInit ==
  /\ pool = [c \in Creds |-> FreshCredential]
  /\ now = 0
  /\ drv = [j \in PoolJobs |-> IdleJob]
  /\ outstanding = [j \in PoolJobs |-> 0]

\* a pool operation: what was called, the credential passed or returned and
\* its status before the call, the outcome and the hint, and the
\* active_tokens a status read answered
Op(name, c, was, o, r, flip) ==
  [op |-> name, cred |-> c, before |-> was, outcome |-> o, retry_after |-> r,
   active_tokens |-> 0, flip |-> flip]

\* useState<PoolStatus | null>(null)
NoStatus == [total_tokens |-> 0, active_tokens |-> 0, tokens |-> <<>>]

SideInit ==
  /\ lastOp = Op("none", NoCred, "none", "none", 0, FALSE)
  /\ status = NoStatus
  /\ statusLoading = FALSE
  /\ statusError = <<>>
  /\ fetching = 0
  /\ interval = "none"
  /\ lastFetch = "none"

\* the server answers anything: its group is not modelled
Init ==
  /\ ClientInit
  /\ memberCount = 0
  /\ countKnown = FALSE
  /\ PoolInit
  /\ SideInit


(***************************************************************************)
(* Pure pieces of the handlers                                             *)
(***************************************************************************)
\* initialResponse.data.total_count || 0
TotalOrZero(tc) == IF tc = Undefined THEN 0 ELSE tc

\* The quotients n + 1/2 (in percent) that IEEE-754 doubles compute low:
\* for len / total = (2n + 1) / 200 with n in this set, (len / total) * 100
\* evaluates to a double just below n + 0.5 (0.575 * 100 =
\* 57.49999999999999), so Math.round yields n.  Every other quotient is
\* rounded as the exact value is, the error of the two operations being far
\* smaller than the distance of a non-half quotient from the next half.
FpLowHalves == {14, 28, 56, 57}

RoundHalfUp(len, total) == (200 * len + total) \div (2 * total)

\* Math.round((len / total) * 100) in double arithmetic, len >= 1, total >= 0
RoundPercent(len, total) ==
  IF total = 0 THEN 1000000  \* Infinity
  ELSE IF \E n \in FpLowHalves : 200 * len = (2 * n + 1) * total
       THEN (100 * len) \div total
       ELSE RoundHalfUp(len, total)

ProgressFloor(len, total) ==
  IF total = 0 THEN 100 ELSE Min((100 * len) \div total, 100)

\* Math.min(Math.round((allFetchedMembers.length / totalMembers) * 100), 100)
Progress(len, total) == Min(RoundPercent(len, total), 100)

\* if (retryCount < maxRetries)
CanRetry(rc) == rc < maxRetries

NextRetryCountStuck(rc) == rc

\* retryCount++
NextRetryCount(rc) == rc + 1

AdvanceOffsetShort(off, len) == off + batchSize - 10

\* currentOffset += batchSize
AdvanceOffset(off, len) == off + batchSize

ContinueIfNonEmpty(len, more) == len > 0

\* the value of hasMore after a page of len members whose has_more is more
ContinuePaging(len, more) == IF len > 0 THEN more ELSE FALSE

\* err.response?.data?.error || err.message || 'Failed to fetch members'
ErrorMessage(err) ==
  Or(Or(IF err.hasResponse THEN err.dataError ELSE "", err.message),
     "Failed to fetch members")

AdminRightsMessage ==
  <<"Unable to access the group. Please make sure the bot is a member of the group and has admin rights.">>
GenericMessage(m) == <<m, ". Please try again later.">>
RetryingMessage(rc) == <<"Retrying... Attempt ", Str(rc), " of ", Str(maxRetries)>>

FinalMessageAlwaysGeneric(m) == GenericMessage(m)

\* the message set when the retries are used up
FinalMessage(m) ==
  IF IncludesEntityNotFound(m) THEN AdminRightsMessage ELSE GenericMessage(m)

\* the message handleSubmit sets in its catch block
SubmitErrorMessage(err) ==
  IF err.hasResponse THEN <<Or(err.dataError, "Server error occurred")>>
  ELSE IF err.hasRequest
       THEN <<"Network error. Please check if the server is running.">>
       ELSE <<Or(err.message, "An unexpected error occurred")>>

StaleMembers(prev) == prev

\* let allFetchedMembers: MemberInfo[] = [] at the start of attemptFetch
FreshMembers(prev) == <<>>

PublishAlways(shown, fetched, more) == fetched

\* setAllMembers(allFetchedMembers) runs only after the while loop
PublishedMembers(shown, fetched, more) == IF more THEN shown ELSE fetched

SucceededAlways(resp) == TRUE

\* if (response.data.success)
Succeeded(resp) == resp.success

(***************************************************************************)
(* Responses of the server                                                 *)
(***************************************************************************)
ParseResponses(link) ==
  {[success |-> TRUE, error |-> "", data |-> link]}
  \cup {[success |-> FALSE, error |-> e, data |-> NoGroup] : e \in RejectTexts}

ParseErrors == AxiosErrors \cup {SetupErr(""), SetupErr("timeout exceeded")}

ProbeResponses ==
  {[success |-> TRUE, error |-> "", total_count |-> t] : t \in TotalCounts}
  \cup {[success |-> FALSE, error |-> e, total_count |-> Undefined] :
          e \in RejectTexts}

PageResponses(a, off) ==
  {[success |-> TRUE, error |-> "", data |-> Page(a, off, n), has_more |-> h] :
     n \in PageLens, h \in BOOLEAN}
  \cup {[success |-> FALSE, error |-> e, data |-> <<>>, has_more |-> FALSE] :
          e \in RejectTexts}

\* the job states of the design
JobState(j) ==
  CASE pc[j] = "idle" -> "Init"
    [] pc[j] = "parse" -> "Resolving"
    [] pc[j] \in {"probe", "page", "delay"} -> "Paging"
    [] pc[j] = "returned" /\ success[j] = "true" -> "Done"
    [] OTHER -> "Failed"

Running(j) ==
  pc[j] \in {"parse", "probe", "page", "delay", "simpleParse", "simplePage"}

(***************************************************************************)
(* Steps                                                                   *)
(***************************************************************************)
\* attemptFetch from its entry to the await of the count probe
AttemptStart(j) ==
  /\ allFetchedMembers' = [allFetchedMembers EXCEPT
                             ![j] = FreshMembers(allFetchedMembers[j])]
  /\ currentOffset' = [currentOffset EXCEPT ![j] = 0]
  /\ hasMore' = [hasMore EXCEPT ![j] = TRUE]
  /\ totalMembers' = [totalMembers EXCEPT ![j] = 0]
  /\ caught' = [caught EXCEPT ![j] = NoErr]
  /\ inflight' = [inflight EXCEPT ![j] = [offset |-> 0, limit |-> 1]]
  /\ pc' = [pc EXCEPT ![j] = "probe"]
  /\ nAttempts' = [nAttempts EXCEPT ![j] = Count(@)]
  /\ nReq' = [nReq EXCEPT ![j] = Count(@)]
  /\ attemptPages' = [attemptPages EXCEPT ![j] = <<>>]
  /\ progressLog' = [progressLog EXCEPT ![j] = <<>>]
  /\ pageOffsets' = [pageOffsets EXCEPT ![j] = <<>>]

ReturnKeepsLoading(j, ok, members) ==
  /\ allMembers' = IF ok THEN members ELSE <<>>
  /\ loadingMembers' = loadingMembers
  /\ loading' = FALSE
  /\ success' = [success EXCEPT ![j] = IF ok THEN "true" ELSE "false"]
  /\ inflight' = [inflight EXCEPT ![j] = NoReq]
  /\ pc' = [pc EXCEPT ![j] = "returned"]

\* the tail of fetchAllMembers after attemptFetch returned ok, and the
\* finally block of handleSubmit
Return(j, ok, members) ==
  /\ allMembers' = IF ok THEN members ELSE <<>>
  /\ loadingMembers' = FALSE
  /\ loading' = FALSE
  /\ success' = [success EXCEPT ![j] = IF ok THEN "true" ELSE "false"]
  /\ inflight' = [inflight EXCEPT ![j] = NoReq]
  /\ pc' = [pc EXCEPT ![j] = "returned"]

\* the catch block of attemptFetch
Catch(j, err) ==
  /\ caught' = [caught EXCEPT ![j] = err]
  /\ IF CanRetry(retryCount[j])
     THEN /\ retryCount' = [retryCount EXCEPT ![j] = NextRetryCount(@)]
          /\ error' = RetryingMessage(retryCount'[j])
          /\ pc' = [pc EXCEPT ![j] = "delay"]
          /\ inflight' = [inflight EXCEPT ![j] = NoReq]
          /\ UNCHANGED <<allMembers, loadingMembers, loading, success>>
     ELSE /\ error' = FinalMessage(ErrorMessage(err))
          /\ Return(j, FALSE, <<>>)
          /\ UNCHANGED retryCount
  /\ lostPartial' = [lostPartial EXCEPT
                       ![j] = @ \/ allFetchedMembers[j] # <<>>]
  /\ UNCHANGED <<groupInfo, fetchProgress, groupLink, allFetchedMembers,
                 currentOffset, hasMore, totalMembers, nAttempts, nReq,
                 attemptPages, progressLog, resolved, submits, pageOffsets,
                 mountVars, serverVars, poolVars, sideVars>>

\* handleSubmit up to the await of the parse-group request, in the free
\* slot j: its closure variables and history start afresh
Submit(j) ==
  /\ mounted
  /\ pc[j] \in {"idle", "returned"}
  /\ submits < MaxSubmits
  /\ \E link \in Groups :
       groupLink' = [groupLink EXCEPT ![j] = link]
  /\ submits' = submits + 1
  /\ loading' = TRUE
  /\ error' = Null
  /\ allMembers' = <<>>
  /\ pc' = [pc EXCEPT ![j] = "parse"]
  /\ success' = [success EXCEPT ![j] = "none"]
  /\ retryCount' = [retryCount EXCEPT ![j] = 0]
  /\ allFetchedMembers' = [allFetchedMembers EXCEPT ![j] = <<>>]
  /\ currentOffset' = [currentOffset EXCEPT ![j] = 0]
  /\ hasMore' = [hasMore EXCEPT ![j] = TRUE]
  /\ totalMembers' = [totalMembers EXCEPT ![j] = 0]
  /\ caught' = [caught EXCEPT ![j] = NoErr]
  /\ nAttempts' = [nAttempts EXCEPT ![j] = 0]
  /\ nReq' = [nReq EXCEPT ![j] = 0]
  /\ attemptPages' = [attemptPages EXCEPT ![j] = <<>>]
  /\ progressLog' = [progressLog EXCEPT ![j] = <<>>]
  /\ resolved' = [resolved EXCEPT ![j] = Resolution("pending", "")]
  /\ lostPartial' = [lostPartial EXCEPT ![j] = FALSE]
  /\ pageOffsets' = [pageOffsets EXCEPT ![j] = <<>>]
  /\ UNCHANGED <<groupInfo, loadingMembers, fetchProgress, inflight,
                 mountVars, serverVars, poolVars, sideVars>>

\* Here the operator submits again only when the previous submission is
\* over, so the lowest slot is taken again.
HandleSubmit(j) ==
  /\ \A k \in Jobs : k < j => Running(k)
  /\ \A k \in Jobs : ~Running(k)
  /\ Submit(j)

\* The submit button is not disabled while a job runs: the operator submits
\* again while an earlier invocation is awaiting a response.
HandleSubmitAgain(j) ==
  /\ \E k \in Jobs : Running(k)
  /\ \A k \in Jobs : k < j => Running(k)
  /\ Submit(j)

\* the parse-group response arrives: handleSubmit continues and, on
\* success, runs fetchAllMembers up to the await of the count probe
ParseResponse(j) ==
  /\ pc[j] = "parse"
  /\ \E resp \in ParseResponses(groupLink[j]) :
     /\ resolved' = [resolved EXCEPT
          ![j] = Resolution(IF resp.success THEN "ok" ELSE "rejected",
                            resp.error)]
     /\ IF Succeeded(resp)
       THEN /\ groupInfo' = resp.data
            /\ loadingMembers' = TRUE
            /\ fetchProgress' = 0
            /\ retryCount' = [retryCount EXCEPT ![j] = 0]
            /\ AttemptStart(j)
            /\ UNCHANGED <<loading, error, allMembers, groupLink, success,
                           lostPartial, submits, mountVars, serverVars, poolVars, sideVars>>
       ELSE /\ error' = <<Or(resp.error, "Failed to parse group")>>
            /\ loading' = FALSE
            /\ pc' = [pc EXCEPT ![j] = "returned"]
            /\ UNCHANGED <<allMembers, groupInfo, loadingMembers,
                           fetchProgress, groupLink, retryCount,
                           allFetchedMembers, currentOffset, hasMore,
                           totalMembers, caught, inflight, success,
                           nAttempts, nReq, attemptPages, progressLog,
                           lostPartial, submits, pageOffsets, mountVars,
                           serverVars, poolVars, sideVars>>

\* the parse-group request throws: catch and finally of handleSubmit
ParseThrows(j) ==
  /\ pc[j] = "parse"
  /\ \E err \in ParseErrors :
       /\ error' = SubmitErrorMessage(err)
       /\ caught' = [caught EXCEPT ![j] = err]
       /\ resolved' = [resolved EXCEPT
            ![j] = Resolution("threw", IF err.hasResponse THEN err.dataError
                                       ELSE "")]
  /\ loading' = FALSE
  /\ pc' = [pc EXCEPT ![j] = "returned"]
  /\ UNCHANGED <<allMembers, groupInfo, loadingMembers, fetchProgress,
                 groupLink, retryCount, allFetchedMembers, currentOffset,
                 hasMore, totalMembers, inflight, success, nAttempts, nReq,
                 attemptPages, progressLog, lostPartial, submits,
                 pageOffsets, mountVars, serverVars, poolVars, sideVars>>

\* the count probe answers: attemptFetch continues to the await of the
\* first page request, or throws into its catch block
ProbeStep(j, resp) ==
       IF Succeeded(resp)
       THEN /\ totalMembers' = [totalMembers EXCEPT
                                  ![j] = TotalOrZero(resp.total_count)]
            /\ inflight' = [inflight EXCEPT
                              ![j] = [offset |-> currentOffset[j],
                                      limit |-> batchSize]]
            /\ pc' = [pc EXCEPT ![j] = "page"]
            /\ nReq' = [nReq EXCEPT ![j] = Count(@)]
            /\ pageOffsets' = [pageOffsets EXCEPT
                                 ![j] = Append(@, currentOffset[j])]
            /\ UNCHANGED <<uiVars, groupLink, retryCount, allFetchedMembers,
                           currentOffset, hasMore, caught, success,
                           nAttempts, attemptPages, progressLog, resolved,
                           lostPartial, submits, mountVars, serverVars, poolVars, sideVars>>
       ELSE Catch(j, NewError(Or(resp.error, "Failed to get member count")))

ProbeResponse(j) ==
  /\ pc[j] = "probe"
  /\ \E resp \in ProbeResponses : ProbeStep(j, resp)

\* a page request answers: one turn of the while loop up to the next await,
\* or to the return of attemptFetch, fetchAllMembers and handleSubmit
PageStep(j, resp) ==
          IF ~Succeeded(resp)
          THEN Catch(j, NewError(Or(resp.error, "Failed to fetch members")))
          ELSE LET nonEmpty == Len(resp.data) > 0
                   fetched == IF nonEmpty
                              THEN allFetchedMembers[j] \o resp.data
                              ELSE allFetchedMembers[j]
                   more == ContinuePaging(Len(resp.data), resp.has_more)
                   progress == IF nonEmpty
                               THEN Progress(Len(fetched), totalMembers[j])
                               ELSE 100
               IN /\ allFetchedMembers' = [allFetchedMembers EXCEPT
                                             ![j] = fetched]
                  /\ currentOffset' = [currentOffset EXCEPT
                       ![j] = IF nonEmpty
                              THEN AdvanceOffset(@, Len(resp.data)) ELSE @]
                  /\ hasMore' = [hasMore EXCEPT ![j] = more]
                  /\ fetchProgress' = progress
                  /\ attemptPages' = [attemptPages EXCEPT
                                        ![j] = Append(@, resp.data)]
                  /\ progressLog' = [progressLog EXCEPT
                                       ![j] = Append(@, progress)]
                  /\ IF more
                     THEN /\ inflight' = [inflight EXCEPT
                               ![j] = [offset |-> currentOffset'[j],
                                       limit |-> batchSize]]
                          /\ nReq' = [nReq EXCEPT ![j] = Count(@)]
                          /\ pageOffsets' = [pageOffsets EXCEPT
                               ![j] = Append(@, currentOffset'[j])]
                          /\ allMembers' =
                               PublishedMembers(allMembers, fetched, TRUE)
                          /\ UNCHANGED <<loading, loadingMembers, pc, success>>
                     ELSE /\ Return(j, TRUE,
                               PublishedMembers(allMembers, fetched, FALSE))
                          /\ UNCHANGED <<nReq, pageOffsets>>
                  /\ UNCHANGED <<error, groupInfo, groupLink, retryCount,
                                 totalMembers, caught, nAttempts, resolved,
                                 lostPartial, submits, mountVars, serverVars, poolVars, sideVars>>

PageResponse(j) ==
  /\ pc[j] = "page"
  /\ \E resp \in PageResponses(retryCount[j] + 1, currentOffset[j]) :
       /\ (resp.success /\ resp.has_more /\ Len(resp.data) > 0)
            => Len(attemptPages[j]) + 1 < MaxPages
       /\ PageStep(j, resp)

\* a group-members request (probe or page) fails in axios
RequestThrows(j) ==
  /\ pc[j] \in {"probe", "page"}
  /\ \E err \in AxiosErrors : Catch(j, err)

\* the 2 s timer of the catch block fires: return attemptFetch()
DelayElapsed(j) ==
  /\ pc[j] = "delay"
  /\ AttemptStart(j)
  /\ UNCHANGED <<uiVars, groupLink, retryCount, success, resolved,
                 lostPartial, submits, mountVars, serverVars, poolVars, sideVars>>

Next ==
  \E j \in Jobs :
    \/ HandleSubmit(j)
    \/ ParseResponse(j)
    \/ ParseThrows(j)
    \/ ProbeResponse(j)
    \/ PageResponse(j)
    \/ RequestThrows(j)
    \/ DelayElapsed(j)

Spec == Init /\ [][Next]_vars

\* pages per attempt and attempts of all jobs together that the overlapping
\* jobs are followed through
OverlapPages == 1
OverlapAttempts == 3

FirstPages ==
  /\ \A j \in Jobs : Len(attemptPages[j]) <= OverlapPages
  /\ \A j \in Jobs : nAttempts[j] < OverlapAttempts
  /\ \A j, k \in Jobs :
       j # k => nAttempts[j] + nAttempts[k] <= OverlapAttempts

\* the step A of invocation j, within these limits
Within(A(_), j) == A(j) /\ FirstPages'

NextOverlap ==
  \E j \in Jobs :
    \/ Within(HandleSubmit, j)
    \/ Within(HandleSubmitAgain, j)
    \/ Within(ParseResponse, j)
    \/ Within(ParseThrows, j)
    \/ Within(ProbeResponse, j)
    \/ Within(PageResponse, j)
    \/ Within(RequestThrows, j)
    \/ Within(DelayElapsed, j)

SpecOverlap == Init /\ [][NextOverlap]_vars

(***************************************************************************)
(* The driver without retries (part_003): the same state hooks, no count   *)
(* probe, no progress, no retry                                            *)
(***************************************************************************)
\* err.response?.data?.error || 'Failed to fetch members'
SimpleErrorMessage(err) ==
  <<Or(IF err.hasResponse THEN err.dataError ELSE "",
       "Failed to fetch members")>>

\* response.data.success && response.data.data.length > 0
Appended(resp) == resp.success /\ Len(resp.data) > 0

\* handleSubmit up to the await of the parse-group request
HandleSubmitSimple(j) ==
  /\ mounted
  /\ pc[j] \in {"idle", "returned"}
  /\ \A k \in Jobs : k < j => Running(k)
  /\ \A k \in Jobs : ~Running(k)
  /\ submits < MaxSubmits
  /\ \E link \in Groups :
       groupLink' = [groupLink EXCEPT ![j] = link]
  /\ submits' = submits + 1
  /\ loading' = TRUE
  /\ error' = Null
  /\ allMembers' = <<>>
  /\ pc' = [pc EXCEPT ![j] = "simpleParse"]
  /\ success' = [success EXCEPT ![j] = "none"]
  /\ retryCount' = [retryCount EXCEPT ![j] = 0]
  /\ allFetchedMembers' = [allFetchedMembers EXCEPT ![j] = <<>>]
  /\ currentOffset' = [currentOffset EXCEPT ![j] = 0]
  /\ hasMore' = [hasMore EXCEPT ![j] = TRUE]
  \* this variant has no totalMembers
  /\ totalMembers' = [totalMembers EXCEPT ![j] = Undefined]
  /\ caught' = [caught EXCEPT ![j] = NoErr]
  /\ nAttempts' = [nAttempts EXCEPT ![j] = 0]
  /\ nReq' = [nReq EXCEPT ![j] = 0]
  /\ attemptPages' = [attemptPages EXCEPT ![j] = <<>>]
  /\ progressLog' = [progressLog EXCEPT ![j] = <<>>]
  /\ resolved' = [resolved EXCEPT ![j] = Resolution("pending", "")]
  /\ lostPartial' = [lostPartial EXCEPT ![j] = FALSE]
  /\ pageOffsets' = [pageOffsets EXCEPT ![j] = <<>>]
  /\ UNCHANGED <<groupInfo, loadingMembers, fetchProgress, inflight,
                 mountVars, serverVars, poolVars, sideVars>>

\* the parse-group response arrives: handleSubmit continues and, on
\* success, runs fetchAllMembers up to the await of the first page request
SimpleParseResponse(j) ==
  /\ pc[j] = "simpleParse"
  /\ \E resp \in ParseResponses(groupLink[j]) :
     /\ resolved' = [resolved EXCEPT
          ![j] = Resolution(IF resp.success THEN "ok" ELSE "rejected",
                            resp.error)]
     /\ IF resp.success
       THEN /\ groupInfo' = resp.data
            /\ loadingMembers' = TRUE
            /\ inflight' = [inflight EXCEPT
                              ![j] = [offset |-> 0, limit |-> batchSize]]
            /\ pc' = [pc EXCEPT ![j] = "simplePage"]
            /\ nAttempts' = [nAttempts EXCEPT ![j] = 1]
            /\ nReq' = [nReq EXCEPT ![j] = 1]
            /\ pageOffsets' = [pageOffsets EXCEPT ![j] = <<0>>]
            /\ UNCHANGED <<loading, error>>
       ELSE /\ error' = <<Or(resp.error, "Failed to parse group")>>
            /\ loading' = FALSE
            /\ pc' = [pc EXCEPT ![j] = "returned"]
            /\ UNCHANGED <<groupInfo, loadingMembers, inflight, nAttempts,
                           nReq, pageOffsets>>
  /\ UNCHANGED <<allMembers, fetchProgress, groupLink, retryCount,
                 allFetchedMembers, currentOffset, hasMore, totalMembers,
                 caught, success, attemptPages, progressLog, lostPartial,
                 submits, mountVars, serverVars, poolVars, sideVars>>

\* the parse-group request throws: catch and finally of handleSubmit
SimpleParseThrows(j) ==
  /\ pc[j] = "simpleParse"
  /\ \E err \in ParseErrors :
       /\ error' = SubmitErrorMessage(err)
       /\ caught' = [caught EXCEPT ![j] = err]
       /\ resolved' = [resolved EXCEPT
            ![j] = Resolution("threw", IF err.hasResponse THEN err.dataError
                                       ELSE "")]
  /\ loading' = FALSE
  /\ pc' = [pc EXCEPT ![j] = "returned"]
  /\ UNCHANGED <<allMembers, groupInfo, loadingMembers, fetchProgress,
                 groupLink, retryCount, allFetchedMembers, currentOffset,
                 hasMore, totalMembers, inflight, success, nAttempts, nReq,
                 attemptPages, progressLog, lostPartial, submits,
                 pageOffsets, mountVars, serverVars, poolVars, sideVars>>

\* a page request answers: one turn of the while loop up to the next await,
\* or to the end of fetchAllMembers and handleSubmit.  attemptPages keeps the
\* pages that reported success.
SimplePageResponse(j) ==
  /\ pc[j] = "simplePage"
  /\ \E resp \in PageResponses(1, currentOffset[j]) :
       /\ (resp.success /\ resp.has_more /\ Len(resp.data) > 0)
            => Len(attemptPages[j]) + 1 < MaxPages
       /\ LET fetched == IF Appended(resp)
                         THEN allFetchedMembers[j] \o resp.data
                         ELSE allFetchedMembers[j]
              more == IF Appended(resp) THEN resp.has_more ELSE FALSE
          IN /\ allFetchedMembers' = [allFetchedMembers EXCEPT ![j] = fetched]
             /\ currentOffset' = [currentOffset EXCEPT
                  ![j] = IF Appended(resp) THEN @ + batchSize ELSE @]
             /\ hasMore' = [hasMore EXCEPT ![j] = more]
             /\ attemptPages' = [attemptPages EXCEPT
                  ![j] = IF resp.success THEN Append(@, resp.data) ELSE @]
             /\ IF more
                THEN /\ inflight' = [inflight EXCEPT
                          ![j] = [offset |-> currentOffset'[j],
                                  limit |-> batchSize]]
                     /\ nReq' = [nReq EXCEPT ![j] = Count(@)]
                     /\ pageOffsets' = [pageOffsets EXCEPT
                          ![j] = Append(@, currentOffset'[j])]
                     /\ UNCHANGED <<allMembers, loading, loadingMembers, pc>>
                ELSE /\ allMembers' = fetched
                     /\ loadingMembers' = FALSE
                     /\ loading' = FALSE
                     /\ inflight' = [inflight EXCEPT ![j] = NoReq]
                     /\ pc' = [pc EXCEPT ![j] = "returned"]
                     /\ UNCHANGED <<nReq, pageOffsets>>
  /\ UNCHANGED <<error, groupInfo, fetchProgress, groupLink, retryCount,
                 totalMembers, caught, success, nAttempts, progressLog,
                 resolved, lostPartial, submits, mountVars, serverVars,
                 poolVars, sideVars>>

\* a page request fails in axios: catch and finally of fetchAllMembers, then
\* the finally of handleSubmit
SimpleRequestThrows(j) ==
  /\ pc[j] = "simplePage"
  /\ \E err \in AxiosErrors :
       /\ error' = SimpleErrorMessage(err)
       /\ caught' = [caught EXCEPT ![j] = err]
  /\ loadingMembers' = FALSE
  /\ loading' = FALSE
  /\ inflight' = [inflight EXCEPT ![j] = NoReq]
  /\ pc' = [pc EXCEPT ![j] = "returned"]
  /\ lostPartial' = [lostPartial EXCEPT
                       ![j] = @ \/ allFetchedMembers[j] # <<>>]
  /\ UNCHANGED <<allMembers, groupInfo, fetchProgress, groupLink, retryCount,
                 allFetchedMembers, currentOffset, hasMore, totalMembers,
                 success, nAttempts, nReq, attemptPages, progressLog,
                 resolved, submits, pageOffsets, mountVars, serverVars,
                 poolVars, sideVars>>

NextSimple ==
  \E j \in Jobs :
    \/ HandleSubmitSimple(j)
    \/ SimpleParseResponse(j)
    \/ SimpleParseThrows(j)
    \/ SimplePageResponse(j)
    \/ SimpleRequestThrows(j)

SpecSimple == Init /\ [][NextSimple]_vars

\* either variant of the component handles a submission
NextVariants == Next \/ NextSimple

SpecVariants == Init /\ [][NextVariants]_vars

\* the operator leaves the page (navigate('/token-status')): the Routes of
\* App unmount TelegramParser.  The handlers that are awaiting a response are
\* not told; the state variables then stand for what the setters were last
\* called with.
Unmount ==
  /\ mounted
  /\ mounted' = FALSE
  /\ nReqAtUnmount' = nReq
  /\ UNCHANGED <<uiVars, jobVars, histVars, pageOffsets, serverVars, poolVars, sideVars>>

NextCancel == Next \/ Unmount

SpecCancel == Init /\ [][NextCancel]_vars

(***************************************************************************)
(* The group-members endpoint as the design describes it: the group is a   *)
(* list of memberCount members that does not change while it is read, a    *)
(* request is answered with the slice of the list at its offset, and       *)
(* has_more follows the rule of the design.                                *)
(***************************************************************************)
\* sizes of the group
GroupSizes == {0, 50, 120}

\* number of members of the slice at offset off
SliceLen(off, limit) ==
  IF off >= memberCount THEN 0 ELSE Min(limit, memberCount - off)

\* has_more = (page length == batch_size) AND (offset < total_count, if known),
\* the offset being the one after the page
HasMoreRule(len, off, limit) ==
  len = limit /\ (countKnown => off + limit < memberCount)

ServedTotal == IF countKnown THEN memberCount ELSE Undefined

ServedProbeResponses ==
  {[success |-> TRUE, error |-> "", total_count |-> ServedTotal]}
  \cup {[success |-> FALSE, error |-> e, total_count |-> Undefined] :
          e \in RejectTexts}

PageFailures ==
  {[success |-> FALSE, error |-> e, data |-> <<>>, has_more |-> FALSE] :
     e \in RejectTexts}

ServedPageResponses(a, off, limit) ==
  {[success |-> TRUE, error |-> "",
    data |-> Page(a, off, SliceLen(off, limit)),
    has_more |-> HasMoreRule(SliceLen(off, limit), off, limit)]}
  \cup PageFailures

\* the same slices under any has_more flag
FlaggedPageResponses(a, off, limit) ==
  {[success |-> TRUE, error |-> "",
    data |-> Page(a, off, SliceLen(off, limit)), has_more |-> h] :
     h \in BOOLEAN}
  \cup PageFailures

InitServer ==
  /\ ClientInit
  /\ memberCount \in GroupSizes
  /\ countKnown \in BOOLEAN
  /\ PoolInit
  /\ SideInit

ServedProbe(j) ==
  /\ pc[j] = "probe"
  /\ \E resp \in ServedProbeResponses : ProbeStep(j, resp)

ServedPage(j) ==
  /\ pc[j] = "page"
  /\ \E resp \in ServedPageResponses(retryCount[j] + 1, inflight[j].offset,
                                      inflight[j].limit) :
       PageStep(j, resp)

FlaggedPage(j) ==
  /\ pc[j] = "page"
  /\ \E resp \in FlaggedPageResponses(retryCount[j] + 1, inflight[j].offset,
                                       inflight[j].limit) :
       PageStep(j, resp)

NextServer ==
  \E j \in Jobs :
    \/ HandleSubmit(j)
    \/ ParseResponse(j)
    \/ ParseThrows(j)
    \/ ServedProbe(j)
    \/ ServedPage(j)
    \/ RequestThrows(j)
    \/ DelayElapsed(j)

SpecServer == InitServer /\ [][NextServer]_vars

\* every request is answered in the end and every timer fires
Answered(j) ==
  \/ ParseResponse(j)
  \/ ParseThrows(j)
  \/ ServedProbe(j)
  \/ FlaggedPage(j)
  \/ RequestThrows(j)
  \/ DelayElapsed(j)

NextLive ==
  \E j \in Jobs :
    \/ HandleSubmit(j)
    \/ ParseResponse(j)
    \/ ParseThrows(j)
    \/ ServedProbe(j)
    \/ FlaggedPage(j)
    \/ RequestThrows(j)
    \/ DelayElapsed(j)

SpecLive ==
  InitServer /\ [][NextLive]_vars /\ \A j \in Jobs : WF_vars(Answered(j))

(***************************************************************************)
(* The enumeration driver of the design (section 4.3) on the pool: a job   *)
(* acquires a credential before each external call and releases it with    *)
(* the classified outcome when the call has completed or failed.           *)
(***************************************************************************)
CallOutcomes == {"Success", "RateLimited", "Transient", "EntityNotFound",
                 "Fatal"}

Calling(j) == drv[j].state \in {"Resolving", "Paging"}

ReleasesExceptEntityNotFound(o) == o # "EntityNotFound"

\* the job releases after the call completed or failed, whatever the outcome
Releases(o) == TRUE

\* the job after a failure that costs one attempt
NextAttempt(d) ==
  IF d.attempt < max_attempts
  THEN [d EXCEPT !.attempt = @ + 1]
  ELSE [d EXCEPT !.state = "Failed"]

\* the soonest cooldown_until across the pool
Soonest(p) ==
  CHOOSE t \in {p[c].cooldown_until : c \in Creds} :
    \A c \in Creds : t <= p[c].cooldown_until

\* the job after acquire() found no credential: it sleeps until the soonest
\* cooldown_until, and the wait costs one attempt
Waited(d) ==
  IF d.attempt < max_attempts
  THEN [d EXCEPT !.attempt = @ + 1, !.asleep = TRUE]
  ELSE [d EXCEPT !.state = "Failed"]

\* the job after the call with outcome o was released; more is has_more
AfterCall(d, o, more) ==
  CASE o = "Success" /\ d.state = "Resolving" -> [d EXCEPT !.state = "Paging"]
    [] o = "Success" /\ d.state = "Paging" ->
         [d EXCEPT !.state = IF more THEN "Paging" ELSE "Done"]
    [] o = "RateLimited" -> d
    [] o = "Transient" -> NextAttempt(d)
    [] OTHER -> [d EXCEPT !.state = "Failed"]

StartEnumeration(j) ==
  /\ drv[j].state = "Init"
  /\ drv' = [drv EXCEPT ![j].state = "Resolving"]
  /\ UNCHANGED <<pool, now, outstanding, frontVars>>

\* acquire(): lazy expiry, then one Available credential, whichever the
\* tie-break selects; with none the job sleeps, which costs one attempt
Acquire(j) ==
  /\ Calling(j)
  /\ drv[j].held = NoCred
  /\ drv[j].asleep => Soonest(pool) <= now
  /\ LET p == Expire(pool, now)
         avail == AvailableCreds(p)
     IN /\ pool' = p
        /\ IF avail # {}
           THEN \E c \in avail :
                  /\ drv' = [drv EXCEPT ![j].held = c, ![j].asleep = FALSE]
                  /\ outstanding' = [outstanding EXCEPT ![j] = @ + 1]
           ELSE /\ drv' = [drv EXCEPT ![j] = Waited(@)]
                /\ UNCHANGED outstanding
  /\ UNCHANGED <<now, frontVars>>

\* the external call of the job completes or fails with outcome o and hint
\* r: release(credential, outcome), and the job's transition
Release(j) ==
  /\ drv[j].held # NoCred
  /\ \E o \in CallOutcomes, r \in RetryAfters, more \in BOOLEAN :
       /\ o # "Success" => pool[drv[j].held].error_count < MaxErrors
       /\ o # "RateLimited" => r = 0
       /\ more => (o = "Success" /\ drv[j].state = "Paging")
       /\ LET d == AfterCall(drv[j], o, more)
              rel == Releases(o)
          IN /\ drv' = [drv EXCEPT
                  ![j] = [d EXCEPT !.held = IF rel THEN NoCred ELSE @]]
             /\ pool' = IF rel
                        THEN [pool EXCEPT
                               ![drv[j].held] =
                                 ReleaseCred(@, PoolOutcome(o), r, now)]
                        ELSE pool
             /\ outstanding' = [outstanding EXCEPT
                                  ![j] = IF rel THEN @ - 1 ELSE @]
  /\ UNCHANGED <<now, frontVars>>

\* time passes
Tick ==
  /\ now < MaxTime
  /\ now' = now + 1
  /\ UNCHANGED <<pool, drv, outstanding, frontVars>>

\* several jobs on the one pool
NextPool ==
  \/ \E j \in PoolJobs : \/ StartEnumeration(j)
                         \/ Acquire(j)
                         \/ Release(j)
  \/ Tick

SpecPool == Init /\ [][NextPool]_vars

\* acquire() called by any other user of the pool
PoolAcquire ==
  /\ pool' = Expire(pool, now)
  /\ UNCHANGED <<now, drv, outstanding, frontVars>>

\* release(c, outcome) called by any other user of the pool
PoolRelease(c) ==
  /\ \E o \in {"Success", "RateLimited", "Error"}, r \in RetryAfters :
       /\ o # "Success" => pool[c].error_count < MaxErrors
       /\ o # "RateLimited" => r = 0
       /\ pool' = [pool EXCEPT ![c] = ReleaseCred(@, o, r, now)]
  /\ UNCHANGED <<now, drv, outstanding, frontVars>>

\* the clock of the one-job runs stops here
DriverTime == 1

\* time passes while the job runs
DriverTick ==
  /\ now < DriverTime
  /\ Tick

\* one job among any number of other users of the pool
NextDriver ==
  \/ StartEnumeration(1)
  \/ Acquire(1)
  \/ Release(1)
  \/ DriverTick
  \/ PoolAcquire
  \/ \E c \in Creds : PoolRelease(c)

SpecDriver == Init /\ [][NextDriver]_vars

\* every external call completes or fails
SpecDriverLive == Init /\ [][NextDriver]_vars /\ WF_vars(Release(1))

(***************************************************************************)
(* The operations of the pool, called in any order                         *)
(***************************************************************************)
baseVars == <<uiVars, jobVars, histVars, pageOffsets, mountVars, serverVars>>

\* acquire() -> Credential | Error(NoCredentialAvailable)
AcquireOp ==
  /\ LET p == Expire(pool, now)
         avail == AvailableCreds(p)
     IN /\ pool' = p
        /\ IF avail # {}
           THEN \E c \in avail :
                  lastOp' = Op("acquire", c, pool[c].status, "none", 0,
                               ~lastOp.flip)
           ELSE lastOp' = Op("acquire", NoCred, "none",
                             "NoCredentialAvailable", 0, ~lastOp.flip)
  /\ UNCHANGED <<now, drv, outstanding, baseVars, pollVars>>

\* release(credential, outcome)
ReleaseOp(c) ==
  /\ \E o \in {"Success", "RateLimited", "Error"}, r \in RetryAfters :
       /\ o # "Success" => pool[c].error_count < MaxErrors
       /\ o # "RateLimited" => r = 0
       /\ pool' = [pool EXCEPT ![c] = ReleaseCred(@, o, r, now)]
       /\ lastOp' = Op("release", c, pool[c].status, o, r, ~lastOp.flip)
  /\ UNCHANGED <<now, drv, outstanding, baseVars, pollVars>>

\* snapshot(): every credential with cooldown expiry applied
Snapshot(p, t) == Expire(p, t)

PoolStatusStored(p, t) ==
  [total_tokens |-> NCreds,
   active_tokens |-> Cardinality(AvailableCreds(p)),
   tokens |-> Snapshot(p, t)]

\* status() of PoolStatusReporter, the answer of GetPoolStatus
PoolStatus(p, t) ==
  [total_tokens |-> NCreds,
   active_tokens |-> Cardinality(AvailableCreds(Expire(p, t))),
   tokens |-> Snapshot(p, t)]

\* GetPoolStatus: a read
StatusOp ==
  /\ lastOp' = [Op("status", NoCred, "none", "none", 0, ~lastOp.flip)
                  EXCEPT !.active_tokens = PoolStatus(pool, now).active_tokens]
  /\ UNCHANGED <<poolVars, baseVars, pollVars>>

NextOps ==
  \/ AcquireOp
  \/ \E c \in Creds : ReleaseOp(c)
  \/ StatusOp
  \/ Tick

SpecOps == Init /\ [][NextOps]_vars

\* the step is a call of the pool operation name
Called(name) == lastOp'.op = name /\ lastOp'.flip # lastOp.flip

\* cooldown_until of credential c is still in the future
Cooling(c) == c.cooldown_until # NoTime /\ c.cooldown_until > now

(***************************************************************************)
(* TokenPoolStatus (part_001): fetchStatus on mount, every 30 s and on the  *)
(* refresh button                                                          *)
(***************************************************************************)
\* fetchStatus calls awaiting their response at the same time
MaxFetching == 2

\* answers of /api/pool-status
CooledCredential ==
  [status |-> "cooldown", error_count |-> 1, cooldown_until |-> 1]

StatusAnswers ==
  {PoolStatus(p, 0) : p \in [Creds -> {FreshCredential, CooledCredential}]}

\* err.response?.data?.error || 'Failed to fetch token pool status'
StatusErrorMessage(err) ==
  <<Or(IF err.hasResponse THEN err.dataError ELSE "",
       "Failed to fetch token pool status")>>

StatusClearedOnFailure(prev) == NoStatus

\* the catch block does not call setStatus
StatusAfterFailure(prev) == prev

\* fetchStatus up to its await
FetchStatus(why) ==
  /\ fetching < MaxFetching
  /\ statusLoading' = TRUE
  /\ statusError' = Null
  /\ fetching' = fetching + 1
  /\ lastFetch' = why
  /\ UNCHANGED status

\* the effect runs on mount: fetchStatus() and setInterval
MountStatus ==
  /\ interval = "none"
  /\ interval' = "armed"
  /\ FetchStatus("mount")
  /\ UNCHANGED <<lastOp, poolVars, baseVars>>

\* the 30 s interval fires
IntervalFires ==
  /\ interval = "armed"
  /\ FetchStatus("timer")
  /\ UNCHANGED <<interval, lastOp, poolVars, baseVars>>

\* the refresh button
ManualRefresh ==
  /\ interval = "armed"
  /\ FetchStatus("manual")
  /\ UNCHANGED <<interval, lastOp, poolVars, baseVars>>

\* the response arrives: setStatus, then the finally block
StatusResponse ==
  /\ fetching > 0
  /\ \E answer \in StatusAnswers : status' = answer
  /\ statusLoading' = FALSE
  /\ fetching' = fetching - 1
  /\ lastFetch' = "ok"
  /\ UNCHANGED <<statusError, interval, lastOp, poolVars, baseVars>>

\* the request fails: the catch block, then the finally block
StatusThrows ==
  /\ fetching > 0
  /\ \E err \in AxiosErrors : statusError' = StatusErrorMessage(err)
  /\ status' = StatusAfterFailure(status)
  /\ statusLoading' = FALSE
  /\ fetching' = fetching - 1
  /\ lastFetch' = "failed"
  /\ UNCHANGED <<interval, lastOp, poolVars, baseVars>>

\* the cleanup of the effect: clearInterval.  The calls that are awaiting a
\* response are not told; the state variables then stand for what the
\* setters were last called with.
UnmountStatus ==
  /\ interval = "armed"
  /\ interval' = "cleared"
  /\ UNCHANGED <<status, statusLoading, statusError, fetching, lastFetch,
                 lastOp, poolVars, baseVars>>

NextStatus ==
  \/ MountStatus
  \/ IntervalFires
  \/ ManualRefresh
  \/ StatusResponse
  \/ StatusThrows
  \/ UnmountStatus

SpecStatus == Init /\ [][NextStatus]_vars

TypeOK ==
  /\ loading \in BOOLEAN /\ loadingMembers \in BOOLEAN
  /\ fetchProgress \in 0..100
  /\ groupInfo \in Groups \cup {NoGroup}
  /\ \A j \in Jobs :
       /\ pc[j] \in {"idle", "parse", "probe", "page", "delay", "returned",
                    "simpleParse", "simplePage"}
       /\ retryCount[j] \in 0..maxRetries
       /\ success[j] \in {"none", "true", "false"}
       /\ resolved[j].outcome \in {"pending", "ok", "rejected", "threw"}
  /\ now \in 0..MaxTime
  /\ \A c \in Creds :
       /\ pool[c].status \in {"available", "cooldown"}
       /\ pool[c].error_count \in 0..MaxErrors
       /\ (pool[c].status = "cooldown") <=> (pool[c].cooldown_until # NoTime)
  /\ \A j \in PoolJobs :
       /\ drv[j].state \in {"Init", "Resolving", "Paging", "Done", "Failed"}
       /\ drv[j].held \in Creds \cup {NoCred}
       /\ drv[j].attempt \in 1..max_attempts
       /\ drv[j].asleep \in BOOLEAN

(***************************************************************************)
(* Properties                                                              *)
(***************************************************************************)
Done(j) == pc[j] = "returned" /\ success[j] = "true"
Failed(j) == pc[j] = "returned" /\ success[j] = "false"
EntityNotFound(err) == err.thrown /\ IncludesEntityNotFound(ErrorMessage(err))

\* C1: the member list shown to the caller is empty or the complete
\* sequence collected by one attempt in which no request failed; it is empty
\* while a job runs and after a job ended Failed.
C1_AllOrNothing ==
  /\ allMembers # <<>> =>
       \E j \in Jobs : /\ Done(j)
                       /\ caught[j] = NoErr
                       /\ allMembers = Flatten(attemptPages[j])
  /\ \A j \in Jobs : Failed(j) => allMembers = <<>>
  /\ \A j \in Jobs : Running(j) => allMembers = <<>>

C1_Witness ==
  \E j \in Jobs : /\ Done(j)
                  /\ retryCount[j] >= 1
                  /\ lostPartial[j]
                  /\ Len(attemptPages[j]) >= 2
                  /\ allMembers # <<>>

\* C2: a job makes at most three attempts, the first included.
C2_AtMostThreeAttempts == \A j \in Jobs : nAttempts[j] <= 3

\* C3: every attempt starts with nothing collected and offset 0, and a job
\* that is Done delivers exactly the concatenation of the pages of its last
\* attempt, every member of which was served during that attempt.
C3_WholeJobRestart ==
  \A j \in Jobs :
    /\ pc[j] = "probe" =>
         allFetchedMembers[j] = <<>> /\ currentOffset[j] = 0
    /\ Done(j) =>
         /\ allMembers = Flatten(attemptPages[j])
         /\ \A i \in 1..Len(allMembers) :
              allMembers[i] \div 1000 = nAttempts[j]

C3_Witness ==
  \E j \in Jobs : /\ Done(j)
                  /\ nAttempts[j] = 3
                  /\ lostPartial[j]
                  /\ Len(allMembers) > batchSize

\* C4: a submission whose parse-group call threw or answered success = false
\* has issued no group-members request and is over.
C4_NoPagingWithoutGroup ==
  \A j \in Jobs :
    resolved[j].outcome \in {"rejected", "threw"} =>
      /\ nReq[j] = 0
      /\ nAttempts[j] = 0
      /\ inflight[j] = NoReq
      /\ pc[j] = "returned"

C4_Witness ==
  \E j \in Jobs : /\ resolved[j] = Resolution("rejected", EntityText)
                  /\ pc[j] = "returned"
                  /\ ~loading

\* C5: a job whose group-members request failed with the entity-not-found
\* error is Failed at once: it is never waiting for a retry.
C5_EntityNotFoundPermanent ==
  \A j \in Jobs :
    (EntityNotFound(caught[j]) /\ resolved[j].outcome = "ok") => Failed(j)

C7_ResolveAdminMessage ==
  \A j \in Jobs :
    (/\ resolved[j].outcome \in {"rejected", "threw"}
     /\ IncludesEntityNotFound(resolved[j].text)) =>
      error = AdminRightsMessage

PageLens120 == <<50, 50, 20>>

\* C8 as stated: total_count 120, pages of 50, 50 and 20 members: the
\* progress values are 41, 83, 100.
C8_Progress41 ==
  \A j \in Jobs :
    (totalMembers[j] = 120 /\ Lens(attemptPages[j]) = PageLens120) =>
      progressLog[j] = <<41, 83, 100>>

\* C8 amended: total_count 120, pages of 50, 50 and 20 members: the
\* progress values are 42, 83, 100.
C8_Progress42 ==
  \A j \in Jobs :
    (totalMembers[j] = 120 /\ Lens(attemptPages[j]) = PageLens120) =>
      progressLog[j] = <<42, 83, 100>>

C8_Witness ==
  \E j \in Jobs : /\ Done(j)
                  /\ retryCount[j] = 0
                  /\ totalMembers[j] = 120
                  /\ Lens(attemptPages[j]) = PageLens120
                  /\ Len(allMembers) = 120

\* p is x rounded half up and capped at 100, for x = 100 * c / t, t > 0
IsCappedRoundHalfUp(p, c, t) ==
  \/ p = 100 /\ 200 * c + t >= 200 * t
  \/ /\ p \in 0..99
     /\ 2 * p * t <= 200 * c + t
     /\ 200 * c + t < 2 * (p + 1) * t

\* C9: the progress reported after each non-empty page is
\* min(100, round(|collected| * 100 / total_count)), rounding half up, and
\* the progress is always an integer in 0..100.
C9_ProgressRounded ==
  /\ fetchProgress \in 0..100
  /\ \A j \in Jobs :
       \A i \in 1..Len(progressLog[j]) :
         (totalMembers[j] > 0 /\ Len(attemptPages[j][i]) > 0) =>
           IsCappedRoundHalfUp(progressLog[j][i],
                               Len(Flatten(SubSeq(attemptPages[j], 1, i))),
                               totalMembers[j])

\* C10: a job that is Done shows progress 100.
C10_DoneProgress100 == \A j \in Jobs : Done(j) => fetchProgress = 100

\* C12: in one attempt the page requests go out at offsets 0, 50, 100, ...
\* in that order, each with limit 50, one request after each successful
\* non-empty page whatever its length.
C12_PageOffsets ==
  \A j \in Jobs :
    /\ \A i \in 1..Len(pageOffsets[j]) :
         pageOffsets[j][i] = (i - 1) * batchSize
    /\ pc[j] = "page" =>
         /\ Len(pageOffsets[j]) = Len(attemptPages[j]) + 1
         /\ inflight[j] = [offset |-> Len(attemptPages[j]) * batchSize,
                           limit |-> batchSize]
         /\ currentOffset[j] = inflight[j].offset

C12_Witness ==
  \E j \in Jobs : /\ pc[j] = "page"
                  /\ Lens(attemptPages[j]) = <<20, 23>>
                  /\ pageOffsets[j] = <<0, 50, 100>>

\* C14: after the component was unmounted no job issues a new request.
C14_NoCallAfterUnmount ==
  ~mounted => \A j \in Jobs : nReq[j] <= nReqAtUnmount[j]

\* C16: a job that is Done leaves no error set.
C16_NoErrorWhenDone == \A j \in Jobs : Done(j) => error = Null

\* C17: the retry counter of a job is 0 when fetchAllMembers starts, grows
\* by exactly 1 with each failure that is retried, and is changed by nothing
\* else: not by a successful page, not by the start of an attempt.
C17_RetryBudget ==
  [][\A j \in Jobs :
       /\ (pc[j] = "parse" /\ pc'[j] = "probe") => retryCount'[j] = 0
       /\ (pc[j] \in {"probe", "page"} /\ pc'[j] = "delay") =>
            retryCount'[j] = retryCount[j] + 1
       /\ (pc[j] \in {"probe", "page", "delay"} /\ pc'[j] # "delay") =>
            retryCount'[j] = retryCount[j]
       /\ retryCount'[j] \in {retryCount[j], retryCount[j] + 1, 0}]_vars

C17_Witness ==
  \E j \in Jobs : /\ pc[j] = "page"
                  /\ retryCount[j] = 2
                  /\ nAttempts[j] = 3
                  /\ Len(attemptPages[j]) = 2

C13_OrderedDistinct ==
  \A j \in Jobs :
    Done(j) =>
      /\ allMembers = Flatten(attemptPages[j])
      /\ \A i \in 1..Len(attemptPages[j]) :
           attemptPages[j][i] =
             Page(nAttempts[j], pageOffsets[j][i], Len(attemptPages[j][i]))
      /\ \A a, b \in 1..Len(allMembers) :
           a < b => allMembers[a] < allMembers[b]
      /\ Len(allMembers) = memberCount

C13_Witness ==
  \E j \in Jobs : /\ Done(j)
                  /\ Len(attemptPages[j]) = 3
                  /\ Len(allMembers) = 120
                  /\ allMembers[51] = nAttempts[j] * 1000 + 51

\* C15: every job that was submitted ends, Done or Failed.
C15_Terminates ==
  \A j \in Jobs : (pc[j] = "parse") ~> (pc[j] = "returned")

C15_Witness ==
  \E j \in Jobs : /\ Failed(j)
                  /\ nAttempts[j] = maxRetries + 1
                  /\ lostPartial[j]
                  /\ ErrorMessage(caught[j]) = "Network Error"

\* C18: a page request that fails with the platform's rate-limit text while
\* a credential is Available leaves the attempt counter, the collected
\* members and the offset as they are, and the same page is requested again
\* at once.
C18_RateLimitKeepsBudget ==
  [][\A j \in Jobs :
       (/\ pc[j] = "page"
        /\ caught[j] = NoErr
        /\ caught'[j].thrown
        /\ ErrorMessage(caught'[j]) = FloodText
        /\ AvailableCreds(pool) # {})
       => /\ retryCount'[j] = retryCount[j]
          /\ allFetchedMembers'[j] = allFetchedMembers[j]
          /\ currentOffset'[j] = currentOffset[j]
          /\ pc'[j] = "page"]_vars

\* C19: no two jobs hold the same credential at the same time.
C19_MutualExclusion ==
  \A j, k \in PoolJobs :
    (j # k /\ drv[j].held # NoCred) => drv[j].held # drv[k].held

\* C20: a job has one unreleased acquisition exactly while it holds a
\* credential, a job that is Done or Failed holds none, and every credential
\* a job holds is released by it (job 1 is the job that runs among the other
\* users of the pool).
C20_ReleasedOnce ==
  /\ [](\A j \in PoolJobs :
          /\ outstanding[j] = IF drv[j].held # NoCred THEN 1 ELSE 0
          /\ drv[j].state \in {"Done", "Failed"} => drv[j].held = NoCred)
  /\ (drv[1].held # NoCred) ~> (drv[1].held = NoCred)

C20_Witness ==
  \E j \in PoolJobs : /\ drv[j].state = "Failed"
                      /\ drv[j].attempt = max_attempts
                      /\ outstanding[j] = 0
                      /\ \A c \in Creds : pool[c].error_count > 0

\* C21: acquire() returns no credential whose cooldown_until is in the
\* future at the call; a credential whose cooldown_until has passed is
\* Available after the call and acquire() can return it; acquire() fails
\* with NoCredentialAvailable exactly when every credential is in Cooldown
\* with cooldown_until in the future.
C21_AcquireAvailable ==
  /\ [][Called("acquire") =>
         /\ lastOp'.cred # NoCred => ~Cooling(pool[lastOp'.cred])
         /\ \A c \in Creds :
              (pool[c].status = "cooldown" /\ ~Cooling(pool[c]))
                => pool'[c].status = "available"
         /\ (lastOp'.cred = NoCred) <=>
              \A c \in Creds : pool[c].status = "cooldown" /\ Cooling(pool[c])
         /\ (lastOp'.cred = NoCred) <=>
              lastOp'.outcome = "NoCredentialAvailable"]_vars
  /\ [](\A c \in Creds :
          (pool[c].status = "cooldown" /\ ~Cooling(pool[c]))
            => ENABLED (AcquireOp /\ lastOp'.cred = c))

C21_Witness ==
  /\ lastOp.op = "acquire"
  /\ lastOp.cred # NoCred
  /\ lastOp.before = "cooldown"
  /\ \E c \in Creds : pool[c].status = "cooldown"

\* C22: what an observation shows (the pool after acquire(), and any
\* snapshot) has status Available for a credential exactly when its
\* cooldown_until is null or not later than now.
C22_StatusIffNotCooling ==
  /\ [][Called("acquire") =>
         \A c \in Creds : (pool'[c].status = "available") <=>
                            ~Cooling(pool'[c])]_vars
  /\ [](\A c \in Creds :
          (Snapshot(pool, now)[c].status = "available") <=>
            ~Cooling(Snapshot(pool, now)[c]))

C22_Witness ==
  /\ now = 1
  /\ \E c \in Creds : /\ pool[c].status = "cooldown"
                      /\ pool[c].cooldown_until = now
                      /\ Snapshot(pool, now)[c].status = "available"

\* C23: release(credential, Success) leaves the credential Available with
\* error_count 0 whatever it was before, and no other credential changes.
C23_ReleaseSuccess ==
  [][(Called("release") /\ lastOp'.outcome = "Success") =>
       /\ pool'[lastOp'.cred].status = "available"
       /\ pool'[lastOp'.cred].error_count = 0
       /\ \A c \in Creds \ {lastOp'.cred} : pool'[c] = pool[c]]_vars

C23_Witness ==
  /\ lastOp.op = "release"
  /\ lastOp.outcome = "Success"
  /\ lastOp.before = "cooldown"
  /\ pool[lastOp.cred] = FreshCredential

\* C24: release(credential, RateLimited(r)) sets the credential to Cooldown
\* with cooldown_until = now + r and error_count one higher, whatever else
\* its state was; without a hint the default backoff takes the place of r.
C24_ReleaseRateLimited ==
  [][(Called("release") /\ lastOp'.outcome = "RateLimited") =>
       LET c == lastOp'.cred
           r == lastOp'.retry_after
       IN /\ pool'[c].status = "cooldown"
          /\ pool'[c].error_count = pool[c].error_count + 1
          /\ r # 0 => pool'[c].cooldown_until = now + r
          /\ r = 0 => pool'[c].cooldown_until =
                        now + Backoff(pool[c].error_count + 1)
          /\ \A d \in Creds \ {c} : pool'[d] = pool[d]]_vars

C24_Witness ==
  /\ lastOp.op = "release"
  /\ lastOp.outcome = "RateLimited"
  /\ lastOp.retry_after = 2
  /\ lastOp.before = "cooldown"
  /\ now = 1
  /\ pool[lastOp.cred] =
       [status |-> "cooldown", error_count |-> 2, cooldown_until |-> 3]

\* C25: in every pool state GetPoolStatus answers total_tokens = the
\* configured number of credentials, active_tokens = the number of
\* credentials not cooling at the read (between 0 and total_tokens), which is
\* all of them when every credential is in Cooldown with cooldown_until in the
\* past, and tokens = the snapshot; the read changes no pool or job state.
C25_PoolStatus ==
  /\ [](LET s == PoolStatus(pool, now)
        IN /\ s.total_tokens = NCreds
           /\ s.active_tokens =
                Cardinality({c \in Creds : ~Cooling(pool[c])})
           /\ s.active_tokens \in 0..s.total_tokens
           /\ s.tokens = Snapshot(pool, now)
           /\ (\A c \in Creds : /\ pool[c].status = "cooldown"
                                /\ pool[c].cooldown_until < now)
                => s.active_tokens = NCreds)
  /\ [][Called("status") =>
         /\ UNCHANGED <<pool, now, drv, outstanding>>
         /\ lastOp'.active_tokens = PoolStatus(pool, now).active_tokens]_vars

C25_Witness ==
  /\ lastOp.op = "status"
  /\ lastOp.active_tokens = 2
  /\ \A c \in Creds : /\ pool[c].status = "cooldown"
                      /\ pool[c].cooldown_until < now

\* C26: with submissions that overlap, a member list that is displayed was
\* collected by a job for the group that is displayed.
C26_JobIsolation ==
  allMembers # <<>> =>
    \E j \in Jobs : /\ success[j] = "true"
                    /\ allMembers = Flatten(attemptPages[j])
                    /\ groupInfo = groupLink[j]

\* C27: in the driver without retries a member list is displayed only when
\* every page request reported success; when a page request reported
\* success = false or threw after members were collected, no list is
\* displayed and an error is.
C27_NoPartialList ==
  \A j \in Jobs :
    (pc[j] = "returned" /\ resolved[j].outcome = "ok") =>
      /\ allMembers # <<>> =>
           (nReq[j] = Len(attemptPages[j]) /\ ~caught[j].thrown)
      /\ (/\ allFetchedMembers[j] # <<>>
          /\ (nReq[j] > Len(attemptPages[j]) \/ caught[j].thrown))
           => (allMembers = <<>> /\ error # Null)

\* C28: every attempt, the first and each restart, begins with the count
\* probe (offset 0, limit 1) and reaches its first page request only from
\* the probe; a probe that does not succeed costs one retry, or ends the job
\* when none is left, and no page request was issued in that attempt.
C28_ProbeFirst ==
  [][\A j \in Jobs :
       /\ (pc[j] \in {"parse", "delay"} /\ pc'[j] \notin {pc[j], "returned"})
            => /\ pc'[j] = "probe"
               /\ inflight'[j] = [offset |-> 0, limit |-> 1]
               /\ nReq'[j] = Count(nReq[j])
               /\ pageOffsets'[j] = <<>>
       /\ (pc[j] # "page" /\ pc'[j] = "page")
            => /\ pc[j] = "probe"
               /\ inflight'[j] = [offset |-> 0, limit |-> batchSize]
       /\ (pc[j] = "probe" /\ pc'[j] # "page" /\ pc'[j] # "probe")
            => /\ caught'[j].thrown
               /\ pageOffsets'[j] = <<>>
               /\ nReq'[j] = nReq[j]
               /\ IF retryCount[j] < maxRetries
                  THEN pc'[j] = "delay" /\ retryCount'[j] = retryCount[j] + 1
                  ELSE Failed(j)' /\ retryCount'[j] = retryCount[j]]_vars

C28_Witness ==
  \E j \in Jobs : /\ pc[j] = "delay"
                  /\ retryCount[j] = 2
                  /\ nAttempts[j] = 2
                  /\ nReq[j] = 4
                  /\ pageOffsets[j] = <<>>
                  /\ ErrorMessage(caught[j]) = "Failed to get member count"

\* C29: with one job at a time, in both variants of the driver,
\* loadingMembers is true while fetchAllMembers runs (every request, every
\* retry delay) and false once it has returned, and loading is false once
\* handleSubmit has completed, on every path.
C29_LoadingFlags ==
  \A j \in Jobs :
    /\ pc[j] \in {"probe", "page", "delay", "simplePage"} => loadingMembers
    /\ pc[j] = "returned" => (~loadingMembers /\ ~loading)

C29_Witness ==
  /\ \E j \in Jobs : /\ pc[j] = "delay"
                     /\ retryCount[j] = maxRetries
                     /\ lostPartial[j]
  /\ loadingMembers
  /\ submits = 2

\* C30: every refresh of the pool status clears error when it starts; when
\* one completes loading is false; a failed one sets error and leaves the
\* displayed status as it was; once the component is unmounted no refresh
\* starts.
C30_Poller ==
  [][/\ fetching' = fetching + 1 =>
          /\ statusError' = Null
          /\ interval' = "armed"
     /\ fetching' = fetching - 1 =>
          /\ statusLoading' = FALSE
          /\ lastFetch' = "failed" =>
               (statusError' # Null /\ status' = status)
     /\ interval = "cleared" =>
          (fetching' <= fetching /\ interval' = "cleared")]_vars

C30_Witness ==
  /\ lastFetch = "failed"
  /\ statusError = <<"Failed to fetch token pool status">>
  /\ status # NoStatus
  /\ status.active_tokens = 1
  /\ interval = "cleared"
  /\ fetching = 1

=============================================================================
